---- MODULE Spec2Model ----
(***************************************************************************)
(* Model of bigrig's configuration layer (src/bigrig/config.py): the YAML  *)
(* documents, the two JSON schemas, the value objects built from a         *)
(* validated document, their equality and display forms, and the           *)
(* configure-once Settings holder.                                         *)
(*                                                                         *)
(* Representation.  A loaded YAML value and a Python value is a record     *)
(* tagged by field t: the JSON-schema type name for loaded data ("string", *)
(* "integer", "null", "object") and the class name for the value objects.  *)
(* A mapping (YAML object, Python dict) is the sequence of its             *)
(* <<key, value>> items in insertion order, which is the order yaml and    *)
(* dict iteration give; keys are distinct.  An exception is a record       *)
(* [type, arg]; a call returns [exc, val, opened] where exc = NoExc on     *)
(* normal return and opened lists the files the call opened, in order.     *)
(***************************************************************************)
EXTENDS Integers, Sequences, FiniteSets, TLC

VARIABLES environ, files, root, lastOp, lastExc, opened, misconfigured,
          lhs, rhs, eqResult, reprLhs, reprRhs

vars == <<environ, files, root, lastOp, lastExc, opened, misconfigured,
          lhs, rhs, eqResult, reprLhs, reprRhs>>

\* Bounds of the model.
MaxTargets == 2
MaxPackages == 2

----------------------------------------------------------------------------
\* Loaded values and Python values

None == [t |-> "null"]
YStr(s) == [t |-> "string", s |-> s]
YInt(n) == [t |-> "integer", n |-> n]
YObj(items) == [t |-> "object", items |-> items]

RECURSIVE SeqToSetOfKeys(_)
SeqToSetOfKeys(items) ==
    IF items = <<>> THEN {}
    ELSE {Head(items)[1]} \cup SeqToSetOfKeys(Tail(items))

Keys(obj) == SeqToSetOfKeys(obj.items)

HasKey(obj, k) == k \in Keys(obj)

\* obj[k] for a key that is present
GetItem(obj, k) ==
    LET i == CHOOSE j \in 1..Len(obj.items) : obj.items[j][1] = k
    IN obj.items[i][2]

\* dict.get(k): the value, or None when the key is absent
DictGet(obj, k) == IF HasKey(obj, k) THEN GetItem(obj, k) ELSE None

\* Python truthiness of an optional string, as used by `if not path`
Falsy(v) == v.t = "null" \/ (v.t = "string" /\ v.s = "")

NoExc == [type |-> "", arg |-> ""]
Exc(type, arg) == [type |-> type, arg |-> arg]
Return(val, log) == [exc |-> NoExc, val |-> val, opened |-> log]
Raise(e, log) == [exc |-> e, val |-> None, opened |-> log]

----------------------------------------------------------------------------
\* Files

Missing == [kind |-> "missing"]
Malformed == [kind |-> "malformed"]
YamlFile(doc) == [kind |-> "yaml", doc |-> doc]
LinesFile(lines) == [kind |-> "lines", lines |-> lines]

FileAt(fs, path) == IF path \in DOMAIN fs THEN fs[path] ELSE Missing

----------------------------------------------------------------------------
\* CREDENTIALS_SCHEMA

\* Variant: the minLength of username is not enforced
ValidCredentialsDoc_NoMinLength(v) ==
    /\ v.t = "object"
    /\ {"username", "password"} \subseteq Keys(v)
    /\ Keys(v) \subseteq {"username", "password"}
    /\ GetItem(v, "username").t = "string"
    /\ GetItem(v, "password").t = "string"

ValidCredentialsDoc(v) ==
    /\ v.t = "object"
    /\ {"username", "password"} \subseteq Keys(v)
    /\ Keys(v) \subseteq {"username", "password"}
    /\ GetItem(v, "username").t = "string"
    /\ GetItem(v, "username").s # ""
    /\ GetItem(v, "password").t = "string"

----------------------------------------------------------------------------
\* CONFIG_SCHEMA

ValidOriginBlob(v) ==
    /\ v.t = "object"
    /\ "location" \in Keys(v)
    /\ Keys(v) \subseteq {"location", "credentialsPath"}
    /\ GetItem(v, "location").t = "string"
    /\ HasKey(v, "credentialsPath") => GetItem(v, "credentialsPath").t = "string"

ValidSourceBlob(v) ==
    /\ v.t = "object"
    /\ "location" \in Keys(v)
    /\ Keys(v) \subseteq {"location", "credentialsPath"}
    /\ GetItem(v, "location").t = "string"
    /\ HasKey(v, "credentialsPath") => GetItem(v, "credentialsPath").t = "string"

ValidTargetBlob(v) ==
    /\ v.t = "object"
    /\ {"variables", "location"} \subseteq Keys(v)
    /\ Keys(v) \subseteq {"variables", "location", "credentialsPath"}
    /\ GetItem(v, "variables").t = "object"
    /\ GetItem(v, "location").t = "string"
    /\ HasKey(v, "credentialsPath") => GetItem(v, "credentialsPath").t = "string"

\* The characters of the class [a-z0-9_]
PatternChars ==
    {"a", "b", "c", "d", "e", "f", "g", "h", "i", "j", "k", "l", "m",
     "n", "o", "p", "q", "r", "s", "t", "u", "v", "w", "x", "y", "z",
     "0", "1", "2", "3", "4", "5", "6", "7", "8", "9", "_"}

\* TLA+ strings are atomic: the characters of each target name of the model
NameChars(name) ==
    CASE name = "co7_37" -> <<"c", "o", "7", "_", "3", "7">>
      [] name = "x86" -> <<"x", "8", "6">>
      [] name = "Co7-37" -> <<"C", "o", "7", "-", "3", "7">>
      [] name = "" -> <<>>

\* re.search("^[a-z0-9_]+$", name): `$` also matches before a final newline
MatchesTargetPattern(name) ==
    LET cs == NameChars(name)
        body == IF cs # <<>> /\ cs[Len(cs)] = "\n"
                THEN SubSeq(cs, 1, Len(cs) - 1) ELSE cs
    IN /\ body # <<>>
       /\ \A i \in 1..Len(body) : body[i] \in PatternChars

\* "targets": type object; patternProperties constrains only the members
\* whose name matches the pattern
ValidTargetsBlob(v) ==
    /\ v.t = "object"
    /\ \A i \in 1..Len(v.items) :
          MatchesTargetPattern(v.items[i][1]) => ValidTargetBlob(v.items[i][2])

ValidConfigDoc(v) ==
    /\ v.t = "object"
    /\ {"origin", "source", "targets"} \subseteq Keys(v)
    /\ Keys(v) \subseteq {"origin", "source", "targets"}
    /\ ValidOriginBlob(GetItem(v, "origin"))
    /\ ValidSourceBlob(GetItem(v, "source"))
    /\ ValidTargetsBlob(GetItem(v, "targets"))

----------------------------------------------------------------------------
\* Value objects

Credentials(username, password) ==
    [t |-> "Credentials", username |-> username, password |-> password]
Origin(location, credentials) ==
    [t |-> "Origin", location |-> location, credentials |-> credentials]
Source(location, credentials) ==
    [t |-> "Source", location |-> location, credentials |-> credentials]
Target(location, variables, credentials) ==
    [t |-> "Target", location |-> location, variables |-> variables,
     credentials |-> credentials]
ConfigEntry(origin, source, targets) ==
    [t |-> "ConfigEntry", origin |-> origin, source |-> source,
     targets |-> targets]
RootConfig(entry, packages) ==
    [t |-> "RootConfig", entry |-> entry, packages |-> packages]

\* The files in log were opened before r was evaluated
AfterOpening(log, r) == [r EXCEPT !.opened = log \o @]

\* Sequencing of two calls: when r raised, the exception propagates;
\* otherwise K continues with the value of r, and the files opened add up
Bind(r, K(_)) ==
    IF r.exc # NoExc THEN r ELSE AfterOpening(r.opened, K(r.val))

\* open(path) and yaml.safe_load of its content
LoadYaml(f, path) ==
    CASE f.kind = "missing" -> Raise(Exc("OSError", path), <<path>>)
      [] f.kind = "malformed" -> Raise(Exc("YAMLError", path), <<path>>)
      [] f.kind = "yaml" -> Return(f.doc, <<path>>)

\* Credentials.from_path
Credentials_from_path(path, fs) ==
    IF Falsy(path) THEN Return(None, <<>>)
    ELSE Bind(LoadYaml(FileAt(fs, path.s), path.s), LAMBDA credentials :
            IF ~ValidCredentialsDoc(credentials)
            THEN Raise(Exc("ValidationError", path.s), <<>>)
            ELSE Return(Credentials(GetItem(credentials, "username"),
                                    GetItem(credentials, "password")), <<>>))

\* blob[k] on a loaded value: TypeError when blob is not a mapping, KeyError
\* when the key is missing
Subscript(blob, k) ==
    IF blob.t # "object" THEN Raise(Exc("TypeError", k), <<>>)
    ELSE IF ~HasKey(blob, k) THEN Raise(Exc("KeyError", k), <<>>)
    ELSE Return(GetItem(blob, k), <<>>)

\* Origin.from_dict
Origin_from_dict(blob, fs) ==
    Bind(Subscript(blob, "location"), LAMBDA location :
    Bind(Credentials_from_path(DictGet(blob, "credentialsPath"), fs),
         LAMBDA credentials : Return(Origin(location, credentials), <<>>)))

\* Source.from_dict
Source_from_dict(blob, fs) ==
    Bind(Subscript(blob, "location"), LAMBDA location :
    Bind(Credentials_from_path(DictGet(blob, "credentialsPath"), fs),
         LAMBDA credentials : Return(Source(location, credentials), <<>>)))

\* Target.from_dict
Target_from_dict(blob, fs) ==
    Bind(Subscript(blob, "location"), LAMBDA location :
    Bind(Subscript(blob, "variables"), LAMBDA variables :
    Bind(Credentials_from_path(DictGet(blob, "credentialsPath"), fs),
         LAMBDA credentials :
            Return(Target(location, variables, credentials), <<>>))))

\* The dict comprehension over blob["targets"].items(): targets are built in
\* document order and the first failure aborts
RECURSIVE TargetsComprehension(_, _)
TargetsComprehension(items, fs) ==
    IF items = <<>> THEN Return(<<>>, <<>>)
    ELSE Bind(Target_from_dict(Head(items)[2], fs), LAMBDA target :
         Bind(TargetsComprehension(Tail(items), fs), LAMBDA rest :
            Return(<<<<Head(items)[1], target>>>> \o rest, <<>>)))

\* Variant: the source is built before the origin
ConfigEntry_from_dict_SourceFirst(blob, fs) ==
    IF ~ValidConfigDoc(blob) THEN Raise(Exc("ValidationError", "config"), <<>>)
    ELSE Bind(Source_from_dict(GetItem(blob, "source"), fs), LAMBDA source :
         Bind(Origin_from_dict(GetItem(blob, "origin"), fs), LAMBDA origin :
         Bind(TargetsComprehension(GetItem(blob, "targets").items, fs),
              LAMBDA targets :
                 Return(ConfigEntry(origin, source, targets), <<>>))))

\* ConfigEntry.from_dict: validate, then origin, source, targets in that order
ConfigEntry_from_dict(blob, fs) ==
    IF ~ValidConfigDoc(blob) THEN Raise(Exc("ValidationError", "config"), <<>>)
    ELSE Bind(Origin_from_dict(GetItem(blob, "origin"), fs), LAMBDA origin :
         Bind(Source_from_dict(GetItem(blob, "source"), fs), LAMBDA source :
         Bind(TargetsComprehension(GetItem(blob, "targets").items, fs),
              LAMBDA targets :
                 Return(ConfigEntry(origin, source, targets), <<>>))))

----------------------------------------------------------------------------
\* Package requirements

\* A line of the package list: a distribution name and a version specifier,
\* either of which may be empty, surrounded by white space and the newline.
Line(name, specifier) == [name |-> name, specifier |-> specifier]

\* packaging.requirements.Requirement(line): white space is dropped, a line
\* without a name is an InvalidRequirement
ValidRequirementLine(line) == line.name # ""
Requirement(line) ==
    [t |-> "Requirement", name |-> line.name, specifier |-> line.specifier]

\* str(x) for a Requirement, and for the None that zip_longest fills in
Str(x) == IF x.t = "null" THEN "None" ELSE x.name \o x.specifier

\* Variant: lines without a requirement are skipped instead of rejected
RECURSIVE ParsePackages_SkipsBlank(_)
ParsePackages_SkipsBlank(lines) ==
    IF lines = <<>> THEN Return(<<>>, <<>>)
    ELSE Bind(ParsePackages_SkipsBlank(Tail(lines)), LAMBDA rest :
            IF ~ValidRequirementLine(Head(lines)) THEN Return(rest, <<>>)
            ELSE Return(<<Requirement(Head(lines))>> \o rest, <<>>))

\* [Requirement(package) for package in fid]
RECURSIVE ParsePackages(_)
ParsePackages(lines) ==
    IF lines = <<>> THEN Return(<<>>, <<>>)
    ELSE IF ~ValidRequirementLine(Head(lines))
    THEN Raise(Exc("InvalidRequirement", "packages"), <<>>)
    ELSE Bind(ParsePackages(Tail(lines)), LAMBDA rest :
            Return(<<Requirement(Head(lines))>> \o rest, <<>>))

----------------------------------------------------------------------------
\* RootConfig.get_instance

EnvGet(env, k) == IF k \in DOMAIN env THEN YStr(env[k]) ELSE None

\* The variable read by os.environ.get, or ValueError
EnvPath(env, k) ==
    IF Falsy(EnvGet(env, k)) THEN Raise(Exc("ValueError", k), <<>>)
    ELSE Return(EnvGet(env, k).s, <<>>)

\* The try block around the config file: YAMLError and OSError raised inside
\* it, also by a credentials file, are re-raised naming the config path
WrapConfigExc(e, config_path) ==
    IF e.type \in {"YAMLError", "OSError"} THEN Exc(e.type, config_path) ELSE e

LoadEntry(config_path, fs) ==
    [Bind(LoadYaml(FileAt(fs, config_path), config_path), LAMBDA blob :
        ConfigEntry_from_dict(blob, fs))
     EXCEPT !.exc = WrapConfigExc(@, config_path)]

\* The try block around the package list
LoadPackages(packages_path, f) ==
    IF f.kind = "missing"
    THEN Raise(Exc("OSError", packages_path), <<packages_path>>)
    ELSE AfterOpening(<<packages_path>>, ParsePackages(f.lines))

RootConfig_get_instance(env, fs) ==
    Bind(EnvPath(env, "BIGRIG_CONFIG_PATH"), LAMBDA config_path :
    Bind(EnvPath(env, "BIGRIG_PACKAGES_PATH"), LAMBDA packages_path :
    Bind(LoadEntry(config_path, fs), LAMBDA entry :
    Bind(LoadPackages(packages_path, FileAt(fs, packages_path)),
         LAMBDA packages : Return(RootConfig(entry, packages), <<>>)))))

----------------------------------------------------------------------------
\* Settings

\* The instance has no attribute `root`
Unset == [t |-> "<unset>"]

\* Settings.__getattribute__("root")
Settings_getattribute_root(r) ==
    IF r = Unset THEN Raise(Exc("ImportError", "root"), <<>>)
    ELSE Return(r, <<>>)

\* super().__setattr__("root", inst): the assignment happens only when the
\* call that computes inst returned
SetRoot(r, inst) ==
    [root |-> IF inst.exc # NoExc THEN r ELSE inst.val,
     exc |-> inst.exc, opened |-> inst.opened]

\* Variant: no duplicate check, every call loads the configuration
Settings_configure_Reloads(r, env, fs) ==
    SetRoot(r, RootConfig_get_instance(env, fs))

\* Variant: root is assigned whatever get_instance did, and a failure to
\* load leaves an empty RootConfig behind
Settings_configure_AssignsOnFailure(r, env, fs) ==
    IF Settings_getattribute_root(r).exc.type = "ImportError"
    THEN SetRoot(RootConfig(None, <<>>), RootConfig_get_instance(env, fs))
    ELSE [root |-> r, exc |-> Exc("RuntimeError", "configure"), opened |-> <<>>]

\* Settings.configure: the new value of root, the exception and the files read
Settings_configure(r, env, fs) ==
    IF Settings_getattribute_root(r).exc.type = "ImportError"
    THEN SetRoot(r, RootConfig_get_instance(env, fs))
    ELSE [root |-> r, exc |-> Exc("RuntimeError", "configure"), opened |-> <<>>]

----------------------------------------------------------------------------
\* Equality.  a == b evaluates to "True" or "False" or raises; the result is
\* the string "True" or "False" or the name of the exception raised.

Settings(r) == [t |-> "Settings", root |-> r]

\* The classes of config.py that define __eq__
EqClasses ==
    {"Credentials", "Origin", "Source", "Target", "ConfigEntry", "RootConfig",
     "Settings"}

Bool(b) == IF b THEN "True" ELSE "False"

\* x and y: y is evaluated only when x is true
AndThen(x, y) == IF x = "True" THEN y ELSE x

\* all(str(a) == str(b) for a, b in zip_longest(ps, qs)): the shorter list
\* is padded with None
RECURSIVE PackagesAllEqual(_, _)
PackagesAllEqual(ps, qs) ==
    IF ps = <<>> /\ qs = <<>> THEN "True"
    ELSE LET a == IF ps = <<>> THEN None ELSE Head(ps)
             b == IF qs = <<>> THEN None ELSE Head(qs)
         IN IF Str(a) # Str(b) THEN "False"
            ELSE PackagesAllEqual(IF ps = <<>> THEN ps ELSE Tail(ps),
                                  IF qs = <<>> THEN qs ELSE Tail(qs))

\* == on loaded values: mappings compare as mappings, whatever the order of
\* their items
RECURSIVE LoadedEq(_, _)
LoadedEq(a, b) ==
    IF a.t = "object" /\ b.t = "object"
    THEN /\ Len(a.items) = Len(b.items)
         /\ \A i \in 1..Len(a.items) :
               /\ HasKey(b, a.items[i][1])
               /\ LoadedEq(a.items[i][2], GetItem(b, a.items[i][1]))
    ELSE a = b

RECURSIVE PyEq(_, _)
RECURSIVE DictItemsEq(_, _)

\* dict == dict on two name -> Target dicts: same length, and every key of
\* the left one is in the right one with an equal value
DictItemsEq(items, other) ==
    IF items = <<>> THEN "True"
    ELSE LET k == Head(items)[1]
         IN IF k \notin SeqToSetOfKeys(other) THEN "False"
            ELSE AndThen(PyEq(Head(items)[2], GetItem([items |-> other], k)),
                         DictItemsEq(Tail(items), other))

DictEq(a, b) == IF Len(a) # Len(b) THEN "False" ELSE DictItemsEq(a, b)

PyEq(a, b) ==
    CASE a.t = "Credentials" ->
           IF b.t # "Credentials" THEN "TypeError"
           ELSE AndThen(Bool(a.username = b.username),
                        Bool(a.password = b.password))
      [] a.t = "Origin" ->
           IF b.t # "Origin" THEN "TypeError"
           ELSE AndThen(Bool(a.location = b.location),
                        PyEq(a.credentials, b.credentials))
      [] a.t = "Source" ->
           IF b.t # "Source" THEN "TypeError"
           ELSE AndThen(Bool(a.location = b.location),
                        PyEq(a.credentials, b.credentials))
      [] a.t = "Target" ->
           IF b.t # "Target" THEN "TypeError"
           ELSE AndThen(Bool(a.location = b.location),
                AndThen(Bool(LoadedEq(a.variables, b.variables)),
                        PyEq(a.credentials, b.credentials)))
      [] a.t = "ConfigEntry" ->
           IF b.t # "ConfigEntry" THEN "TypeError"
           ELSE AndThen(PyEq(a.origin, b.origin),
                AndThen(PyEq(a.source, b.source),
                        DictEq(a.targets, b.targets)))
      [] a.t = "RootConfig" ->
           IF b.t # "RootConfig" THEN "TypeError"
           ELSE AndThen(PackagesAllEqual(a.packages, b.packages),
                        PyEq(a.entry, b.entry))
      [] a.t = "Settings" ->
           IF b.t # "Settings" THEN "TypeError"
           ELSE IF Settings_getattribute_root(a.root).exc # NoExc
                   \/ Settings_getattribute_root(b.root).exc # NoExc
           THEN "ImportError"
           ELSE PyEq(a.root, b.root)
      \* None == b: NoneType returns NotImplemented for anything but None
      \* and Python then calls the reflected b.__eq__(None)
      [] a.t = "null" ->
           IF b.t = "null" THEN "True"
           ELSE IF b.t \in EqClasses THEN PyEq(b, a)
           ELSE "False"
      [] OTHER ->
           IF b.t \in EqClasses THEN PyEq(b, a)
           ELSE Bool(LoadedEq(a, b))

----------------------------------------------------------------------------
\* Display forms

\* repr of a loaded string, integer or mapping
RECURSIVE ReprLoaded(_)
RECURSIVE ReprLoadedItems(_)
ReprLoadedItems(items) ==
    IF items = <<>> THEN ""
    ELSE "'" \o Head(items)[1] \o "': " \o ReprLoaded(Head(items)[2])
         \o (IF Tail(items) = <<>> THEN "" ELSE ", ")
         \o ReprLoadedItems(Tail(items))
ReprLoaded(v) ==
    CASE v.t = "string" -> "'" \o v.s \o "'"
      [] v.t = "integer" -> "<int>"
      [] v.t = "null" -> "None"
      [] v.t = "object" -> "{" \o ReprLoadedItems(v.items) \o "}"

\* Variant: the generated dataclass __repr__, which prints every field
Credentials_repr_ShowsPassword(c) ==
    "Credentials(username='" \o c.username.s \o "', password='"
    \o c.password.s \o "')"

\* Credentials.__repr__
Credentials_repr(c) ==
    "Credentials(username='" \o c.username.s \o "', password='***')"

\* repr of an Optional[Credentials] field
ReprOptCredentials(c) == IF c.t = "null" THEN "None" ELSE Credentials_repr(c)

\* The __repr__ that @dataclass generates: Class(field=repr(value), ...)
Origin_repr(o) ==
    "Origin(location=" \o ReprLoaded(o.location)
    \o ", credentials=" \o ReprOptCredentials(o.credentials) \o ")"
Source_repr(o) ==
    "Source(location=" \o ReprLoaded(o.location)
    \o ", credentials=" \o ReprOptCredentials(o.credentials) \o ")"
Target_repr(o) ==
    "Target(location=" \o ReprLoaded(o.location)
    \o ", variables=" \o ReprLoaded(o.variables)
    \o ", credentials=" \o ReprOptCredentials(o.credentials) \o ")"

RECURSIVE ReprTargetItems(_)
ReprTargetItems(items) ==
    IF items = <<>> THEN ""
    ELSE "'" \o Head(items)[1] \o "': " \o Target_repr(Head(items)[2])
         \o (IF Tail(items) = <<>> THEN "" ELSE ", ")
         \o ReprTargetItems(Tail(items))

ConfigEntry_repr(e) ==
    "ConfigEntry(origin=" \o Origin_repr(e.origin)
    \o ", source=" \o Source_repr(e.source)
    \o ", targets={" \o ReprTargetItems(e.targets) \o "})"

RECURSIVE ReprPackages(_)
ReprPackages(ps) ==
    IF ps = <<>> THEN ""
    ELSE "<Requirement('" \o Str(Head(ps)) \o "')>"
         \o (IF Tail(ps) = <<>> THEN "" ELSE ", ")
         \o ReprPackages(Tail(ps))

RootConfig_repr(r) ==
    "RootConfig(entry=" \o ConfigEntry_repr(r.entry)
    \o ", packages=[" \o ReprPackages(r.packages) \o "])"

\* Settings.__repr__
Settings_repr(x) ==
    IF Settings_getattribute_root(x.root).exc.type = "ImportError"
    THEN "Settings(<Unconfigured>)"
    ELSE "Settings(root='" \o RootConfig_repr(x.root) \o "')"

Repr(v) ==
    CASE v.t = "Credentials" -> Credentials_repr(v)
      [] v.t = "Origin" -> Origin_repr(v)
      [] v.t = "Source" -> Source_repr(v)
      [] v.t = "Target" -> Target_repr(v)
      [] v.t = "ConfigEntry" -> ConfigEntry_repr(v)
      [] v.t = "RootConfig" -> RootConfig_repr(v)
      [] v.t = "Settings" -> Settings_repr(v)
      [] OTHER -> ReprLoaded(v)

----------------------------------------------------------------------------
\* The environments the model runs in

ConfigPath == "config.yaml"
PackagesPath == "packages.txt"
CredA == "cred_a.yaml"
CredB == "cred_b.yaml"

Variables37 == YObj(<< <<"pythonver", YStr("3.7")>> >>)

OriginBlobs ==
    { YObj(<< <<"location", YStr("http://pypi")>> >>),
      YObj(<< <<"location", YStr("http://pypi")>>,
              <<"credentialsPath", YStr(CredA)>> >>),
      YObj(<< <<"credentialsPath", YStr(CredA)>> >>) }

SourceBlobs ==
    { YObj(<< <<"location", YStr("http://stage")>>,
              <<"credentialsPath", YStr("")>> >>),
      YObj(<< <<"location", YStr("http://stage")>>,
              <<"credentialsPath", YStr(CredB)>> >>) }

TargetBlobs ==
    { YObj(<< <<"variables", Variables37>>,
              <<"location", YStr("./br/co7_37/")>> >>),
      YObj(<< <<"variables", Variables37>>,
              <<"location", YStr("./br/co7_37/")>>,
              <<"credentialsPath", YStr(CredA)>> >>),
      YObj(<< <<"location", YStr("./br/co7_37/")>>,
              <<"credentialsPath", YStr(CredB)>> >>) }

TargetNames == {"co7_37", "x86", "Co7-37"}

\* The mappings of at most n distinct names to values of vals, in every order
DictsUpTo(n, names, vals) ==
    UNION { { d \in [1..k -> names \X vals] :
                \A i, j \in 1..k : d[i][1] = d[j][1] => i = j }
            : k \in 0..n }

ConfigDocs ==
    { YObj(<< <<"origin", o>>, <<"source", s>>, <<"targets", YObj(ts)>> >>) :
        o \in OriginBlobs, s \in SourceBlobs,
        ts \in DictsUpTo(MaxTargets, TargetNames, TargetBlobs) }
    \cup
    { None,
      YObj(<< <<"origin", YObj(<< <<"location", YStr("http://pypi")>> >>)>>,
              <<"source", YObj(<< <<"location", YStr("http://stage")>> >>)>> >>),
      YObj(<< <<"origin", YObj(<< <<"location", YStr("http://pypi")>> >>)>>,
              <<"source", YObj(<< <<"location", YStr("http://stage")>> >>)>>,
              <<"targets", YObj(<<>>)>>,
              <<"packages", YStr("foo")>> >>) }

CredDoc(u, p) == YObj(<< <<"username", YStr(u)>>, <<"password", YStr(p)>> >>)

CredFilesA ==
    { Missing, Malformed, YamlFile(CredDoc("alice", "pw1")),
      YamlFile(CredDoc("", "pw1")) }

CredFilesB ==
    { YamlFile(CredDoc("bob", "")),
      YamlFile(YObj(<< <<"username", YStr("bob")>>, <<"password", YStr("pw2")>>,
                       <<"token", YStr("t")>> >>)) }

PackageLines == { Line("foo", ""), Line("bar", ">=1.0"), Line("", "") }

SeqsUpTo(n, S) == UNION { [1..k -> S] : k \in 0..n }

PackageFiles ==
    { Missing } \cup { LinesFile(ls) : ls \in SeqsUpTo(MaxPackages, PackageLines) }

ConfigFiles == { Missing, Malformed } \cup { YamlFile(d) : d \in ConfigDocs }

FileSystem(c, a, b, p) ==
    (ConfigPath :> c) @@ (CredA :> a) @@ (CredB :> b) @@ (PackagesPath :> p)

\* A package list of two requirements
TwoPackages == LinesFile(<<Line("foo", ""), Line("bar", ">=1.0")>>)

\* A valid document without credentials
PlainDoc ==
    YObj(<< <<"origin", YObj(<< <<"location", YStr("http://pypi")>> >>)>>,
            <<"source", YObj(<< <<"location", YStr("http://stage")>> >>)>>,
            <<"targets", YObj(<< <<"co7_37",
                YObj(<< <<"variables", Variables37>>,
                        <<"location", YStr("./br/co7_37/")>> >>)>> >>)>> >>)

\* Every configuration and credentials file with one package list, and every
\* package list with one configuration
FileSystems ==
    { FileSystem(c, a, b, TwoPackages) :
        c \in ConfigFiles, a \in CredFilesA, b \in CredFilesB }
    \cup
    { FileSystem(YamlFile(PlainDoc), Missing, Missing, p) : p \in PackageFiles }

FullEnviron ==
    ("BIGRIG_CONFIG_PATH" :> ConfigPath) @@ ("BIGRIG_PACKAGES_PATH" :> PackagesPath)

\* Environments in which a path variable is unset or empty
PartialEnvirons ==
    { ("BIGRIG_PACKAGES_PATH" :> PackagesPath),
      ("BIGRIG_CONFIG_PATH" :> "") @@ ("BIGRIG_PACKAGES_PATH" :> PackagesPath),
      ("BIGRIG_CONFIG_PATH" :> ConfigPath),
      ("BIGRIG_CONFIG_PATH" :> ConfigPath) @@ ("BIGRIG_PACKAGES_PATH" :> "") }

DefaultFiles ==
    (ConfigPath :> YamlFile(None)) @@ (CredA :> Missing) @@ (CredB :> Missing)
    @@ (PackagesPath :> Missing)

----------------------------------------------------------------------------
\* The Settings object: one process, one Settings instance, the environment
\* and the files fixed for the run

ValuesIdle ==
    /\ lhs = None /\ rhs = None
    /\ eqResult = "" /\ reprLhs = "" /\ reprRhs = ""

Init ==
    /\ \/ environ = FullEnviron /\ files \in FileSystems
       \/ environ \in PartialEnvirons /\ files = DefaultFiles
    /\ root = Unset
    /\ lastOp = ""
    /\ lastExc = NoExc
    /\ opened = <<>>
    /\ misconfigured = FALSE
    /\ ValuesIdle

\* settings.configure()
Configure ==
    LET r == Settings_configure(root, environ, files)
    IN /\ root' = r.root
       /\ lastOp' = "configure"
       /\ lastExc' = r.exc
       /\ opened' = r.opened
       /\ misconfigured' =
             (misconfigured \/ (r.exc # NoExc /\ r.exc.type # "RuntimeError"))
       /\ UNCHANGED <<environ, files, lhs, rhs, eqResult, reprLhs, reprRhs>>

\* settings.root
ReadRoot ==
    /\ lastOp' = "getattr"
    /\ lastExc' = Settings_getattribute_root(root).exc
    /\ UNCHANGED <<environ, files, root, opened, misconfigured,
                   lhs, rhs, eqResult, reprLhs, reprRhs>>

Next == Configure \/ ReadRoot

Spec == Init /\ [][Next]_vars

----------------------------------------------------------------------------
\* Value objects under == and repr: two values are drawn, then compared and
\* displayed

PoolCredentials ==
    { Credentials(YStr(u), YStr(p)) : u \in {"alice", "bob"}, p \in {"pw1", "pw2"} }
PoolOptCredentials == PoolCredentials \cup { None }
PoolLocations == { YStr("http://pypi"), YStr("./br") }
PoolVariables == { Variables37, YObj(<<>>) }
PoolOrigins == { Origin(l, c) : l \in PoolLocations, c \in PoolOptCredentials }
PoolSources == { Source(l, c) : l \in PoolLocations, c \in PoolOptCredentials }
PoolTargets ==
    { Target(l, v, c) : l \in PoolLocations, v \in PoolVariables,
                        c \in PoolOptCredentials }

AlicesCredentials ==
    { None, Credentials(YStr("alice"), YStr("pw1")),
      Credentials(YStr("alice"), YStr("pw2")) }
EntryOrigins == { Origin(YStr("http://pypi"), c) : c \in AlicesCredentials }
EntryTargets == { Target(YStr("./br"), Variables37, c) : c \in AlicesCredentials }
PoolEntries ==
    { ConfigEntry(o, Source(YStr("http://stage"), None), ts) :
        o \in EntryOrigins, ts \in DictsUpTo(MaxTargets, {"co7_37", "x86"}, EntryTargets) }

PoolRequirements == { Requirement(Line("foo", "")), Requirement(Line("None", "")) }
RootEntries ==
    { ConfigEntry(o, Source(YStr("http://stage"), None), <<>>) : o \in EntryOrigins }
PoolRoots ==
    { RootConfig(e, ps) :
        e \in RootEntries, ps \in SeqsUpTo(MaxPackages, PoolRequirements) }
PoolSettings ==
    { Settings(Unset) } \cup { Settings(RootConfig(e, <<>>)) : e \in RootEntries }

Values ==
    PoolOptCredentials \cup PoolOrigins \cup PoolSources \cup PoolTargets
    \cup PoolEntries \cup PoolRoots \cup PoolSettings \cup { YStr("http://pypi") }

SettingsIdle ==
    /\ environ = FullEnviron /\ files = DefaultFiles /\ root = Unset
    /\ lastOp = "" /\ lastExc = NoExc /\ opened = <<>> /\ misconfigured = FALSE

InitValues ==
    /\ lhs \in Values
    /\ rhs \in Values
    /\ eqResult = "" /\ reprLhs = "" /\ reprRhs = ""
    /\ SettingsIdle

\* lhs == rhs
Compare ==
    /\ eqResult = ""
    /\ eqResult' = PyEq(lhs, rhs)
    /\ UNCHANGED <<environ, files, root, lastOp, lastExc, opened, misconfigured,
                   lhs, rhs, reprLhs, reprRhs>>

\* repr(lhs), repr(rhs)
Display ==
    /\ reprLhs = ""
    /\ reprLhs' = Repr(lhs)
    /\ reprRhs' = Repr(rhs)
    /\ UNCHANGED <<environ, files, root, lastOp, lastExc, opened, misconfigured,
                   lhs, rhs, eqResult>>

NextValues == Compare \/ Display

SpecValues == InitValues /\ [][NextValues]_vars

----------------------------------------------------------------------------
\* Properties of the Settings object (specification Spec)

ConfigDoc == files[ConfigPath].doc
ConfigLoaded == environ = FullEnviron /\ files[ConfigPath].kind = "yaml"

\* C1: once a configure() call has succeeded, every later configure() call
\* fails with RuntimeError and leaves root as the successful call set it.
C1_ConfigureOnce ==
    [][root # Unset =>
          /\ root' = root
          /\ lastOp' = "configure" => lastExc'.type = "RuntimeError"]_vars

C1_Witness ==
    root # Unset /\ lastOp = "configure" /\ lastExc.type = "RuntimeError"

\* C2: the error of reading settings.root after a configure() call that
\* failed is distinct from the error of reading it on a Settings object on
\* which configure() was never called.
C2_DistinctErrors ==
    (lastOp = "getattr" /\ misconfigured /\ root = Unset)
        => lastExc # Settings_getattribute_root(Unset).exc

\* C3: when the configuration file is malformed YAML or its document
\* violates CONFIG_SCHEMA, configure() fails with an exception, root stays
\* unset, reading settings.root still fails, and no configure() call is
\* rejected as a duplicate.
ConfigFileBroken ==
    /\ environ = FullEnviron
    /\ \/ files[ConfigPath].kind = "malformed"
       \/ files[ConfigPath].kind = "yaml" /\ ~ValidConfigDoc(ConfigDoc)

C3_BrokenConfigStaysUnconfigured ==
    ConfigFileBroken =>
        /\ root = Unset
        /\ lastOp = "configure" =>
              lastExc.type = (IF files[ConfigPath].kind = "malformed"
                              THEN "YAMLError" ELSE "ValidationError")
        /\ lastOp = "getattr" => lastExc.type = "ImportError"

C3_Witness ==
    /\ ConfigFileBroken /\ files[ConfigPath].kind = "yaml"
    /\ misconfigured /\ lastOp = "getattr" /\ lastExc.type = "ImportError"

C6_TargetNamesMatchPattern ==
    root # Unset =>
        \A i \in 1..Len(root.entry.targets) :
            MatchesTargetPattern(root.entry.targets[i][1])

\* The credentials paths of a document, in the order origin, source, targets
CredPathOf(blob) ==
    IF blob.t = "object" /\ ~Falsy(DictGet(blob, "credentialsPath"))
    THEN <<DictGet(blob, "credentialsPath").s>> ELSE <<>>

RECURSIVE CredPathsOfTargets(_)
CredPathsOfTargets(items) ==
    IF items = <<>> THEN <<>>
    ELSE CredPathOf(Head(items)[2]) \o CredPathsOfTargets(Tail(items))

CredPathsInOrder(doc) ==
    CredPathOf(GetItem(doc, "origin")) \o CredPathOf(GetItem(doc, "source"))
    \o CredPathsOfTargets(GetItem(doc, "targets").items)

IsPrefix(p, q) == Len(p) <= Len(q) /\ SubSeq(q, 1, Len(p)) = p

\* A credentials file that is an object with exactly username and password,
\* both strings, username non-empty
GoodCredentialsFile(path) ==
    /\ files[path].kind = "yaml"
    /\ files[path].doc.t = "object"
    /\ Keys(files[path].doc) = {"username", "password"}
    /\ GetItem(files[path].doc, "username").t = "string"
    /\ GetItem(files[path].doc, "password").t = "string"
    /\ GetItem(files[path].doc, "username").s # ""

\* C8: a document that violates the schema makes configure() fail after
\* opening the configuration file only; for a valid document the credentials
\* files are opened in the order origin, source, targets, and the first one
\* that fails is the last file opened and aborts construction.
C8_ValidateThenReadInOrder ==
    (lastOp = "configure" /\ ConfigLoaded /\ lastExc.type # "RuntimeError") =>
        IF ~ValidConfigDoc(ConfigDoc)
        THEN /\ opened = <<ConfigPath>>
             /\ lastExc.type = "ValidationError"
             /\ root = Unset
        ELSE LET creds == CredPathsInOrder(ConfigDoc)
             IN /\ IsPrefix(opened, <<ConfigPath>> \o creds \o <<PackagesPath>>)
                /\ \A i \in 2..Len(opened) :
                      (i <= 1 + Len(creds) /\ ~GoodCredentialsFile(opened[i]))
                          => /\ i = Len(opened)
                             /\ lastExc.type \in
                                  {"OSError", "YAMLError", "ValidationError"}
                             /\ root = Unset

C8_Witness ==
    /\ lastOp = "configure"
    /\ opened = <<ConfigPath, CredA, CredB>>
    /\ lastExc = Exc("ValidationError", CredB)
    /\ Len(CredPathsInOrder(ConfigDoc)) >= 3

\* C9: an entry whose credentialsPath is absent or empty has credentials
\* None and causes no file to be read; an entry with a path has the
\* Credentials of a file that validates against CREDENTIALS_SCHEMA, so no
\* Credentials has an empty username.
CredentialsFollowPath(blob, obj) ==
    IF Falsy(DictGet(blob, "credentialsPath"))
    THEN obj.credentials = None
    ELSE LET path == GetItem(blob, "credentialsPath").s
         IN /\ GoodCredentialsFile(path)
            /\ obj.credentials.t = "Credentials"
            /\ obj.credentials.username = GetItem(files[path].doc, "username")
            /\ obj.credentials.password = GetItem(files[path].doc, "password")
            /\ obj.credentials.username.s # ""

C9_CredentialsFromValidFilesOnly ==
    root # Unset =>
        LET ts == GetItem(ConfigDoc, "targets").items
        IN /\ CredentialsFollowPath(GetItem(ConfigDoc, "origin"), root.entry.origin)
           /\ CredentialsFollowPath(GetItem(ConfigDoc, "source"), root.entry.source)
           /\ \A i \in 1..Len(ts) :
                 CredentialsFollowPath(ts[i][2], root.entry.targets[i][2])
           /\ (lastOp = "configure" /\ lastExc = NoExc) =>
                 opened = <<ConfigPath>> \o CredPathsInOrder(ConfigDoc)
                          \o <<PackagesPath>>

C9_Witness ==
    /\ root # Unset /\ lastOp = "configure" /\ lastExc = NoExc
    /\ root.entry.origin.credentials.t = "Credentials"
    /\ root.entry.source.credentials = None
    /\ HasKey(GetItem(ConfigDoc, "source"), "credentialsPath")
    /\ \E i \in 1..Len(root.entry.targets) :
          /\ root.entry.targets[i][2].credentials = None
          /\ ~HasKey(GetItem(ConfigDoc, "targets").items[i][2], "credentialsPath")

----------------------------------------------------------------------------
\* Properties of == and repr (specification SpecValues)

\* Field-by-field equality of two values of the same class: dicts as
\* mappings, requirements by their string form
RECURSIVE FieldsEqual(_, _)
FieldsEqual(a, b) ==
    CASE a.t # b.t -> FALSE
      [] a.t \in {"Origin", "Source"} ->
           /\ a.location = b.location
           /\ FieldsEqual(a.credentials, b.credentials)
      [] a.t = "Target" ->
           /\ a.location = b.location
           /\ LoadedEq(a.variables, b.variables)
           /\ FieldsEqual(a.credentials, b.credentials)
      [] a.t = "ConfigEntry" ->
           /\ FieldsEqual(a.origin, b.origin)
           /\ FieldsEqual(a.source, b.source)
           /\ Len(a.targets) = Len(b.targets)
           /\ \A i \in 1..Len(a.targets) :
                 \E j \in 1..Len(b.targets) :
                     /\ a.targets[i][1] = b.targets[j][1]
                     /\ FieldsEqual(a.targets[i][2], b.targets[j][2])
      [] a.t = "RootConfig" ->
           /\ FieldsEqual(a.entry, b.entry)
           /\ Len(a.packages) = Len(b.packages)
           /\ \A i \in 1..Len(a.packages) : Str(a.packages[i]) = Str(b.packages[i])
      [] a.t = "Settings" ->
           \/ a.root = Unset /\ b.root = Unset
           \/ a.root # Unset /\ b.root # Unset /\ FieldsEqual(a.root, b.root)
      [] OTHER -> a = b

\* C5: for two values of the same class == is true exactly when all their
\* fields are equal and false otherwise, also when one has credentials and
\* the other has none; TypeError is raised only for operands of different
\* classes.
C5_StructuralEquality ==
    eqResult # "" =>
        /\ (lhs.t = rhs.t /\ lhs.t \in EqClasses)
              => eqResult = Bool(FieldsEqual(lhs, rhs))
        /\ eqResult = "TypeError" => lhs.t # rhs.t

\* C10: two RootConfig values compare equal only if their package lists have
\* the same length and the same string form at each position.
C10_PackageListsEqual ==
    (eqResult = "True" /\ lhs.t = "RootConfig" /\ rhs.t = "RootConfig") =>
        /\ Len(lhs.packages) = Len(rhs.packages)
        /\ \A i \in 1..Len(lhs.packages) :
              Str(lhs.packages[i]) = Str(rhs.packages[i])

\* A value with every password blanked
RECURSIVE WithoutPasswords(_)
WithoutPasswords(v) ==
    CASE v.t = "Credentials" -> [v EXCEPT !.password = YStr("")]
      [] v.t \in {"Origin", "Source", "Target"} ->
           [v EXCEPT !.credentials = WithoutPasswords(v.credentials)]
      [] v.t = "ConfigEntry" ->
           [v EXCEPT !.origin = WithoutPasswords(v.origin),
                     !.source = WithoutPasswords(v.source),
                     !.targets = [i \in 1..Len(v.targets) |->
                                    <<v.targets[i][1],
                                      WithoutPasswords(v.targets[i][2])>>]]
      [] v.t = "RootConfig" -> [v EXCEPT !.entry = WithoutPasswords(v.entry)]
      [] v.t = "Settings" -> [v EXCEPT !.root = WithoutPasswords(v.root)]
      [] OTHER -> v

\* C7: two values that differ only in the passwords of the Credentials they
\* contain have the same repr.
C7_ReprHidesPassword ==
    (reprLhs # "" /\ WithoutPasswords(lhs) = WithoutPasswords(rhs))
        => reprLhs = reprRhs

C7_Witness ==
    /\ reprLhs # "" /\ reprLhs = reprRhs
    /\ lhs.t = "Settings" /\ rhs.t = "Settings" /\ lhs # rhs

====
